---- MODULE Spec2Model ----
(***************************************************************************)
(* Breadth-first flood fill (src/floodfill.py): perform_flood_fill,        *)
(* flood_fill_diagonal and flood_fill_with_boundary, each run on its own   *)
(* copy of one input grid, one after the other (the program is            *)
(* single-threaded, so the calls never interleave).                        *)
(*                                                                         *)
(* Python values are modelled as strings.  None is the string "None",     *)
(* which is never a cell shape; the empty string is the only falsy shape.  *)
(* A coordinate is <<row, col>>, 0-indexed as in the source; a grid is a   *)
(* sequence of rows, so grid[row][col] of the source is g[row+1][col+1].   *)
(***************************************************************************)
EXTENDS Integers, Sequences, FiniteSets

\* ------------------------------------------------------------------ bounds
\* A grid has at most MaxCells cells (height * width <= MaxCells).
MaxCells == 4

\* ------------------------------------------------------------------ values
None == "None"
\* Shapes found in input grids, and shapes offered as new_shape / boundary_shape.
GridShapes == {"", "-"}
Shapes == {"", "-", "X"}
Fns == {"perform_flood_fill", "flood_fill_diagonal", "flood_fill_with_boundary"}
\* The order in which the three calls are made, each on a fresh copy of the input.
CallOrder == <<"perform_flood_fill", "flood_fill_diagonal", "flood_fill_with_boundary">>

\* Python truthiness of a str-or-None value (`boundary_shape and ...`).
Truthy(v) == v # None /\ v # ""

\* ------------------------------------------------------------- grid access
Height(g) == Len(g)
Width(g) == IF Height(g) > 0 THEN Len(g[1]) ELSE 0

\* Python list indexing seq[i]: negative indices count from the end; None
\* stands for the IndexError of an index outside -len..len-1.
PyIndex(seq, i, default) ==
    IF 0 <= i /\ i < Len(seq) THEN seq[i + 1]
    ELSE IF 0 - Len(seq) <= i /\ i < 0 THEN seq[Len(seq) + i + 1]
    ELSE default

Get(g, r, c) == PyIndex(PyIndex(g, r, <<>>), c, None)

Set(g, r, c, v) == [g EXCEPT ![r + 1][c + 1] = v]

\* `0 <= start_row < height and 0 <= start_col < width`
SeedInBoundsMissingLower(h, w, r, c) == r < h /\ c < w
SeedInBounds(h, w, r, c) == 0 <= r /\ r < h /\ 0 <= c /\ c < w

\* `0 <= new_row < height and 0 <= new_col < width`
InBounds(h, w, r, c) == 0 <= r /\ r < h /\ 0 <= c /\ c < w

\* ------------------------------------------------------- per-variant policy
\* `directions` of perform_flood_fill and flood_fill_with_boundary.
Directions4MissingLeft == << <<-1, 0>>, <<1, 0>>, <<0, 1>> >>
Directions4 == << <<-1, 0>>, <<1, 0>>, <<0, 1>>, <<0, -1>> >>

\* `directions` of flood_fill_diagonal.
Directions8OnlyDiagonal == << <<-1, -1>>, <<-1, 1>>, <<1, -1>>, <<1, 1>> >>
Directions8 ==
    << <<-1, 0>>, <<1, 0>>, <<0, 1>>, <<0, -1>>,
       <<-1, -1>>, <<-1, 1>>, <<1, -1>>, <<1, 1>> >>

DirectionsOf(f) == IF f = "flood_fill_diagonal" THEN Directions8 ELSE Directions4

\* `if original_shape == new_shape: return 0`
AlreadyNewShapeNever(original, new) == FALSE
AlreadyNewShape(original, new) == original = new

\* `if original_shape == new_shape or (boundary_shape and original_shape == boundary_shape)`
BoundaryEarlyReturn(original, new, boundary) ==
    original = new \/ (Truthy(boundary) /\ original = boundary)

EarlyReturnOf(f, original, new, boundary) ==
    IF f = "flood_fill_with_boundary"
    THEN BoundaryEarlyReturn(original, new, boundary)
    ELSE AlreadyNewShape(original, new)

\* `if grid[row][col] == original_shape`
ShouldFill(g, r, c, original) == Get(g, r, c) = original

\* `if animate and visualizer`
HookOnEitherFlag(animate, visualizer) == animate \/ Truthy(visualizer)
HookOn(animate, visualizer) == animate /\ Truthy(visualizer)

\* The neighbour test of perform_flood_fill and flood_fill_diagonal.
NeighbourOKNoVisited(g, h, w, vis, original, nr, nc) ==
    /\ InBounds(h, w, nr, nc)
    /\ Get(g, nr, nc) = original
NeighbourOK(g, h, w, vis, original, nr, nc) ==
    /\ InBounds(h, w, nr, nc)
    /\ <<nr, nc>> \notin vis
    /\ Get(g, nr, nc) = original

\* The neighbour test of flood_fill_with_boundary: bounds and visited, then the
\* boundary `continue`, then the original-shape match.
BoundarySkipInverted(g, boundary, nr, nc) ==
    Truthy(boundary) /\ Get(g, nr, nc) # boundary
BoundarySkip(g, boundary, nr, nc) == Truthy(boundary) /\ Get(g, nr, nc) = boundary

NeighbourOKBoundary(g, h, w, vis, original, boundary, nr, nc) ==
    /\ InBounds(h, w, nr, nc)
    /\ <<nr, nc>> \notin vis
    /\ ~BoundarySkip(g, boundary, nr, nc)
    /\ Get(g, nr, nc) = original

Accepts(f, g, h, w, vis, original, boundary, nr, nc) ==
    IF f = "flood_fill_with_boundary"
    THEN NeighbourOKBoundary(g, h, w, vis, original, boundary, nr, nc)
    ELSE NeighbourOK(g, h, w, vis, original, nr, nc)

\* The `for dr, dc in directions` loop from direction i on: qv is the pair
\* [queue, visited] so far; an accepted neighbour is appended and marked.
RECURSIVE Expand(_, _, _, _, _, _, _, _, _, _)
Expand(f, g, h, w, original, boundary, r, c, i, qv) ==
    IF i > Len(DirectionsOf(f)) THEN qv
    ELSE LET d == DirectionsOf(f)[i]
             nr == r + d[1]
             nc == c + d[2]
         IN  IF Accepts(f, g, h, w, qv.visited, original, boundary, nr, nc)
             THEN Expand(f, g, h, w, original, boundary, r, c, i + 1,
                         [queue |-> Append(qv.queue, <<nr, nc>>),
                          visited |-> qv.visited \cup {<<nr, nc>>}])
             ELSE Expand(f, g, h, w, original, boundary, r, c, i + 1, qv)

\* `while queue`: the loop is left when the deque is empty.
QueueAlmostEmpty(q) == Len(q) <= 1
QueueEmpty(q) == q = <<>>

\* `cells_filled += 1`
CountUnchanged(n) == n
CountAfterFill(n) == n + 1

\* --------------------------------------------------------------------- state
VARIABLES
    args,            \* the arguments shared by the three calls (grid: the input grid)
    grid,            \* grid[f]: the copy of the input that call f mutates in place
    pc,              \* pc[f]: "call", "validated", "loop", "hook", "dirs", "done", "error"
    original_shape,  \* original_shape[f], None before it is captured
    queue,           \* queue[f]: the deque, head first
    visited,         \* visited[f]
    cells_filled,    \* cells_filled[f]
    cell,            \* cell[f]: <<row, col>> of the last popleft, <<>> before the first
    result,          \* result[f]: <<>> until the call returns, then <<count>>
    hooks,           \* hooks[f]: one entry per visualizer.animate_fill call
    popped,          \* popped[f]: the coordinates dequeued, in order
    committed        \* committed[f]: one entry per grid write, in order

vars == <<args, grid, pc, original_shape, queue, visited, cells_filled, cell,
          result, hooks, popped, committed>>

\* Rectangular grids of at most MaxCells cells, the empty grid [] and grids of
\* empty rows included.
Grids ==
    UNION { [1..h -> [1..w -> GridShapes]] :
            <<h, w>> \in { hw \in (0..MaxCells) \X (0..MaxCells) :
                           hw[1] * hw[2] <= MaxCells /\ (hw[1] = 0 => hw[2] = 0) } }

\* Seeds: every in-bounds coordinate, and one step outside on each side.
Seeds(g) == (-1..Height(g)) \X (-1..Width(g))

Init ==
    /\ args \in { [grid |-> g, start_row |-> s[1], start_col |-> s[2], new_shape |-> n,
                   boundary_shape |-> b, animate |-> a, visualizer |-> v] :
                  <<g, s, n, b, a, v>> \in
                      { t \in Grids \X ((-1..MaxCells) \X (-1..MaxCells)) \X Shapes
                               \X (Shapes \cup {None}) \X BOOLEAN \X {None, "vis"} :
                        t[2] \in Seeds(t[1]) } }
    /\ grid = [f \in Fns |-> args.grid]
    /\ pc = [f \in Fns |-> "call"]
    /\ original_shape = [f \in Fns |-> None]
    /\ queue = [f \in Fns |-> <<>>]
    /\ visited = [f \in Fns |-> {}]
    /\ cells_filled = [f \in Fns |-> 0]
    /\ cell = [f \in Fns |-> <<>>]
    /\ result = [f \in Fns |-> <<>>]
    /\ hooks = [f \in Fns |-> <<>>]
    /\ popped = [f \in Fns |-> <<>>]
    /\ committed = [f \in Fns |-> <<>>]

Finished(f) == pc[f] \in {"done", "error"}

\* Call f starts once every call before it in CallOrder has ended.
Turn(f) ==
    \A i, j \in 1..Len(CallOrder) :
        (CallOrder[j] = f /\ i < j) => Finished(CallOrder[i])

\* -------------------------------------------------------------------- actions
\* Lines 26-32: dimensions and seed validation; IndexError when out of bounds.
Validate(f) ==
    /\ pc[f] = "call"
    /\ Turn(f)
    /\ pc' = [pc EXCEPT ![f] =
                IF SeedInBounds(Height(grid[f]), Width(grid[f]), args.start_row,
                                args.start_col)
                THEN "validated" ELSE "error"]
    /\ UNCHANGED <<args, grid, original_shape, queue, visited, cells_filled, cell,
                   result, hooks, popped, committed>>

\* Lines 34-39: capture the seed's shape and return 0 when nothing is to be done.
EarlyReturn(f) ==
    /\ pc[f] = "validated"
    /\ LET original == Get(grid[f], args.start_row, args.start_col)
       IN  /\ EarlyReturnOf(f, original, args.new_shape, args.boundary_shape)
           /\ original_shape' = [original_shape EXCEPT ![f] = original]
    /\ result' = [result EXCEPT ![f] = <<0>>]
    /\ pc' = [pc EXCEPT ![f] = "done"]
    /\ UNCHANGED <<args, grid, queue, visited, cells_filled, cell, hooks, popped,
                   committed>>

\* Lines 34-51: capture the seed's shape, then queue, visited and the counter.
Initialize(f) ==
    /\ pc[f] = "validated"
    /\ LET original == Get(grid[f], args.start_row, args.start_col)
       IN  /\ ~EarlyReturnOf(f, original, args.new_shape, args.boundary_shape)
           /\ original_shape' = [original_shape EXCEPT ![f] = original]
    /\ queue' = [queue EXCEPT ![f] = << <<args.start_row, args.start_col>> >>]
    /\ visited' = [visited EXCEPT ![f] = { <<args.start_row, args.start_col>> }]
    /\ cells_filled' = [cells_filled EXCEPT ![f] = 0]
    /\ pc' = [pc EXCEPT ![f] = "loop"]
    /\ UNCHANGED <<args, grid, cell, result, hooks, popped, committed>>

\* Lines 54-62: popleft, and when the cell still holds the original shape, the
\* write and the count.  The hook comes next when animation is on.
Dequeue(f) ==
    /\ pc[f] = "loop"
    /\ ~QueueEmpty(queue[f])
    /\ LET rc == Head(queue[f])
           rest == Tail(queue[f])
       IN  /\ queue' = [queue EXCEPT ![f] = rest]
           /\ cell' = [cell EXCEPT ![f] = rc]
           /\ popped' = [popped EXCEPT ![f] = Append(@, rc)]
           /\ IF ShouldFill(grid[f], rc[1], rc[2], original_shape[f])
              THEN /\ grid' = [grid EXCEPT ![f] = Set(@, rc[1], rc[2], args.new_shape)]
                   /\ cells_filled' = [cells_filled EXCEPT ![f] = CountAfterFill(@)]
                   /\ committed' = [committed EXCEPT ![f] =
                                       Append(@, [cell |-> rc, queue |-> rest])]
                   /\ pc' = [pc EXCEPT ![f] =
                                IF HookOn(args.animate, args.visualizer)
                                THEN "hook" ELSE "dirs"]
              ELSE /\ UNCHANGED <<grid, cells_filled, committed, pc>>
    /\ UNCHANGED <<args, original_shape, visited, result, hooks>>

\* Lines 65-66: visualizer.animate_fill(grid, delay); the hook reads the grid
\* and returns.
Hook(f) ==
    /\ pc[f] = "hook"
    /\ hooks' = [hooks EXCEPT ![f] = Append(@, [grid |-> grid[f], queue |-> queue[f]])]
    /\ pc' = [pc EXCEPT ![f] = "dirs"]
    /\ UNCHANGED <<args, grid, original_shape, queue, visited, cells_filled, cell,
                   result, popped, committed>>

\* Lines 69-79: the neighbour loop of the cell just filled.
Neighbours(f) ==
    /\ pc[f] = "dirs"
    /\ LET qv == Expand(f, grid[f], Height(grid[f]), Width(grid[f]), original_shape[f],
                        args.boundary_shape, cell[f][1], cell[f][2], 1,
                        [queue |-> queue[f], visited |-> visited[f]])
       IN  /\ queue' = [queue EXCEPT ![f] = qv.queue]
           /\ visited' = [visited EXCEPT ![f] = qv.visited]
    /\ pc' = [pc EXCEPT ![f] = "loop"]
    /\ UNCHANGED <<args, grid, original_shape, cells_filled, cell, result, hooks,
                   popped, committed>>

\* Lines 54 and 81: the loop ends on an empty queue; return cells_filled.
Return(f) ==
    /\ pc[f] = "loop"
    /\ QueueEmpty(queue[f])
    /\ result' = [result EXCEPT ![f] = <<cells_filled[f]>>]
    /\ pc' = [pc EXCEPT ![f] = "done"]
    /\ UNCHANGED <<args, grid, original_shape, queue, visited, cells_filled, cell,
                   hooks, popped, committed>>

Next ==
    \E f \in Fns :
        \/ Validate(f)
        \/ EarlyReturn(f)
        \/ Initialize(f)
        \/ Dequeue(f)
        \/ Hook(f)
        \/ Neighbours(f)
        \/ Return(f)

Spec == Init /\ [][Next]_vars

\* The interpreter runs a started call to its end: no step is ever withheld.
FairSpec == Spec /\ WF_vars(Next)

\* ------------------------------------------------------ notions of the claims
Seed == <<args.start_row, args.start_col>>
Cells == (0..(Height(args.grid) - 1)) \X (0..(Width(args.grid) - 1))
SeedValid == Seed \in Cells
At(g, c) == g[c[1] + 1][c[2] + 1]
Input(c) == At(args.grid, c)
Changed(f) == { c \in Cells : At(grid[f], c) # Input(c) }
DiffCount(g) == Cardinality({ c \in Cells : At(g, c) # Input(c) })
Abs(n) == IF n < 0 THEN 0 - n ELSE n

\* 4-adjacency, or 8-adjacency when diag.
Adjacent(a, b, diag) ==
    LET dr == Abs(a[1] - b[1])
        dc == Abs(a[2] - b[2])
    IN  IF diag THEN dr <= 1 /\ dc <= 1 /\ dr + dc >= 1 ELSE dr + dc = 1

\* The seed's connected component of cells holding the seed's input value.
RECURSIVE Grow(_, _)
Grow(S, diag) ==
    LET T == S \cup { c \in Cells : /\ Input(c) = Input(Seed)
                                    /\ \E m \in S : Adjacent(m, c, diag) }
    IN  IF T = S THEN S ELSE Grow(T, diag)

Region(f) == Grow({Seed}, f = "flood_fill_diagonal")

NoDup(seq) == \A i, j \in 1..Len(seq) : i # j => seq[i] # seq[j]
Range(seq) == { seq[i] : i \in 1..Len(seq) }
CommittedCells(f) == [k \in 1..Len(committed[f]) |-> committed[f][k].cell]
AllDone == \A f \in Fns : pc[f] = "done"
\* The call returned before its queue was ever set up.
TookEarlyExit(f) == pc[f] = "done" /\ visited[f] = {}
AnimationOn == args.animate /\ args.visualizer # None

\* --------------------------------------------------------------------- claims
\* C1: after perform_flood_fill (4-adjacency) or flood_fill_diagonal
\* (8-adjacency) returns on a replacement different from the seed's value, a
\* cell holds the replacement iff it lies in the seed's connected component
\* of original-valued cells; every other cell holds its input value.
ConnectivityCompleteness ==
    \A f \in {"perform_flood_fill", "flood_fill_diagonal"} :
        (pc[f] = "done" /\ args.new_shape # Input(Seed)) =>
            \A c \in Cells :
                At(grid[f], c) = IF c \in Region(f) THEN args.new_shape ELSE Input(c)

\* Both fills returned, the diagonal one reached a cell the cardinal one could
\* not, and some cell lies outside both regions.
ConnectivityWitness ==
    /\ pc["perform_flood_fill"] = "done"
    /\ pc["flood_fill_diagonal"] = "done"
    /\ args.new_shape # Input(Seed)
    /\ Region("flood_fill_diagonal") # Region("perform_flood_fill")
    /\ Region("flood_fill_diagonal") # Cells

\* C2: the count each of the three functions returns is the number of cells
\* whose value changed; it is 0 on an early exit and otherwise the size of the
\* seed's connected component under the function's adjacency.
CountCorrectness ==
    \A f \in Fns :
        pc[f] = "done" =>
            /\ result[f] = <<Cardinality(Changed(f))>>
            /\ result[f] = IF TookEarlyExit(f) THEN <<0>>
                           ELSE <<Cardinality(Region(f))>>

\* All three returned after filling, with different counts for the two
\* adjacencies and a truthy boundary value in the grid.
CountWitness ==
    /\ AllDone
    /\ \A f \in Fns : ~TookEarlyExit(f)
    /\ result["flood_fill_diagonal"][1] > result["perform_flood_fill"][1]
    /\ Truthy(args.boundary_shape)
    /\ \E c \in Cells : Input(c) = args.boundary_shape

\* C3: a seed outside 0 <= row < height, 0 <= col < width (negative indices and
\* the empty grid included) ends each call in the IndexError outcome: no count
\* is returned, no cell is read and the grid stays the input grid.
OutOfBoundsSeed ==
    ~SeedValid =>
        \A f \in Fns :
            /\ pc[f] \in {"call", "error"}
            /\ result[f] = <<>>
            /\ original_shape[f] = None
            /\ grid[f] = args.grid

\* All three calls raised on a negative index that Python indexing would accept.
OutOfBoundsWitness ==
    /\ \A f \in Fns : pc[f] = "error"
    /\ args.start_row = -1
    /\ args.start_col = 0
    /\ Height(args.grid) >= 2
    /\ Width(args.grid) >= 1

\* C4: with a boundary value supplied (not None), flood_fill_with_boundary
\* never writes a cell whose input value is the boundary value, so every such
\* cell still holds the boundary value.
BoundaryContainment ==
    args.boundary_shape # None =>
        /\ \A k \in 1..Len(committed["flood_fill_with_boundary"]) :
               Input(committed["flood_fill_with_boundary"][k].cell) # args.boundary_shape
        /\ \A c \in Cells :
               Input(c) = args.boundary_shape =>
                   At(grid["flood_fill_with_boundary"], c) = args.boundary_shape

\* C5: a replacement equal to the seed's value makes each of the three calls
\* return 0, change no cell and never invoke the progress hook.
NoOpLaw ==
    (SeedValid /\ Input(Seed) = args.new_shape) =>
        \A f \in Fns :
            /\ grid[f] = args.grid
            /\ hooks[f] = <<>>
            /\ committed[f] = <<>>
            /\ Finished(f) => (pc[f] = "done" /\ result[f] = <<0>>)

\* All three returned on a no-op request with animation on and a region of
\* several cells that a fill would have walked.
NoOpWitness ==
    /\ AllDone
    /\ SeedValid
    /\ Input(Seed) = args.new_shape
    /\ AnimationOn
    /\ Cardinality(Region("perform_flood_fill")) >= 2

\* C6: on copies of one input, flood_fill_diagonal returns a count at least
\* that of perform_flood_fill and changes every cell the cardinal fill changes.
Monotonicity ==
    (pc["perform_flood_fill"] = "done" /\ pc["flood_fill_diagonal"] = "done") =>
        /\ result["flood_fill_diagonal"][1] >= result["perform_flood_fill"][1]
        /\ Changed("perform_flood_fill") \subseteq Changed("flood_fill_diagonal")

\* Both returned and the diagonal fill changed strictly more cells.
MonotonicityWitness ==
    /\ pc["perform_flood_fill"] = "done"
    /\ pc["flood_fill_diagonal"] = "done"
    /\ result["perform_flood_fill"][1] >= 1
    /\ result["flood_fill_diagonal"][1] > result["perform_flood_fill"][1]

\* C7: with animation requested and a visualizer supplied, the hook runs once
\* per committed cell, after the write and before the cell's neighbours are
\* enqueued (the queue is as popleft left it); the k-th call sees exactly k
\* changed cells and the calls number the returned count.  Otherwise the hook
\* never runs.
HookOrdering ==
    \A f \in Fns :
        IF AnimationOn
        THEN /\ Len(hooks[f]) = Len(committed[f]) - (IF pc[f] = "hook" THEN 1 ELSE 0)
             /\ pc[f] = "hook" => Len(committed[f]) >= 1
             /\ \A k \in 1..Len(hooks[f]) :
                    /\ At(hooks[f][k].grid, committed[f][k].cell) = args.new_shape
                    /\ DiffCount(hooks[f][k].grid) = k
                    /\ hooks[f][k].queue = committed[f][k].queue
             /\ pc[f] = "done" => result[f] = <<Len(hooks[f])>>
        ELSE hooks[f] = <<>>

\* An animated fill of at least three cells has returned.
HookWitness ==
    /\ AnimationOn
    /\ pc["perform_flood_fill"] = "done"
    /\ Len(hooks["perform_flood_fill"]) >= 3
    /\ pc["flood_fill_with_boundary"] = "hook"
    /\ Len(hooks["flood_fill_with_boundary"]) = 1

\* C8: no coordinate is in the frontier twice; a coordinate is in visited
\* exactly when it has been enqueued (it is waiting in the queue or has been
\* dequeued), and none is enqueued a second time: dequeued-then-waiting, taken
\* together, list every enqueue, and that list has no repetition.  So each cell
\* is dequeued at most once and committed at most once.
AtMostOnce ==
    \A f \in Fns :
        /\ NoDup(queue[f])
        /\ NoDup(popped[f] \o queue[f])
        /\ Range(popped[f] \o queue[f]) = visited[f]
        /\ NoDup(CommittedCells(f))

\* A fill has dequeued four cells, the last of them adjacent to two cells
\* dequeued before it (so it was offered twice and enqueued once).
AtMostOnceWitness ==
    /\ pc["perform_flood_fill"] = "done"
    /\ Len(popped["perform_flood_fill"]) = 4
    /\ Cardinality({ i \in 1..3 :
                       Adjacent(popped["perform_flood_fill"][i],
                                popped["perform_flood_fill"][4], FALSE) }) = 2

\* C9: every call ends, and the drain loop is left only by returning on an
\* empty queue.
Termination ==
    /\ <>(\A f \in Fns : Finished(f))
    /\ [][\A f \in Fns :
            (pc[f] \in {"loop", "hook", "dirs"} /\ pc'[f] \notin {"loop", "hook", "dirs"})
                => (pc[f] = "loop" /\ queue[f] = <<>> /\ pc'[f] = "done")]_vars

\* All three calls returned after draining a queue of several cells.
TerminationWitness ==
    /\ AllDone
    /\ \A f \in Fns : Len(popped[f]) >= 3 /\ queue[f] = <<>>

\* C10: unless flood_fill_with_boundary leaves on a seed that holds the
\* boundary value, it commits the same cells in the same order as
\* perform_flood_fill, returns the same count and leaves the same grid; and
\* the boundary skip only ever drops neighbours that do not hold the original
\* shape.
BoundaryEqualsStandard ==
    LET b == "flood_fill_with_boundary"
        p == "perform_flood_fill"
    IN  /\ (/\ pc[b] = "done"
            /\ ~(Truthy(args.boundary_shape) /\ Input(Seed) = args.boundary_shape))
           => /\ pc[p] = "done"
              /\ CommittedCells(b) = CommittedCells(p)
              /\ result[b] = result[p]
              /\ grid[b] = grid[p]
        /\ pc[b] = "dirs" =>
              \A c \in Cells :
                  (/\ Adjacent(cell[b], c, FALSE)
                   /\ args.boundary_shape # None
                   /\ args.boundary_shape # ""
                   /\ At(grid[b], c) = args.boundary_shape)
                  => At(grid[b], c) # original_shape[b]

\* A boundary fill of several cells has returned next to a cell holding a
\* truthy boundary value.
BoundaryEqualsWitness ==
    /\ pc["flood_fill_with_boundary"] = "done"
    /\ Truthy(args.boundary_shape)
    /\ result["flood_fill_with_boundary"][1] >= 2
    /\ \E c \in Cells :
           /\ Input(c) = args.boundary_shape
           /\ \E m \in Changed("flood_fill_with_boundary") : Adjacent(m, c, FALSE)

====
